---- MODULE Spec2Model ----
(***************************************************************************)
(* Batch orchestration of modules/training/extract.py: extract_f0 with its *)
(* FeatureInput.go worker processes, extract_feature with its per-device   *)
(* process workers, and the padding arithmetic of compute_f0 ('pm').       *)
(* Path names are sequences of one-character strings, so that the string   *)
(* operations of the code (join, substring test, replace, endswith,        *)
(* sorting) are computed and not assumed.                                  *)
(***************************************************************************)
EXTENDS Integers, Sequences, FiniteSets, TLC

VARIABLES
    target,         \* the stage the caller runs: "extract_f0" | "extract_feature"
    training_dir,   \* the training_dir argument (a path)
    tree,           \* content of training_dir/1_16k_wavs: records [dir, name]
    num_gpus,       \* torch.cuda.device_count() of the machine
    dirs,           \* output directories that exist
    files,          \* output files that exist
    stage,          \* "idle", "f0" (extract_f0 running), "feature"
    calls,          \* invocations made so far
    ret,            \* return value of the last invocation
    num_processes,  \* workers of the running invocation
    paths,          \* extract_f0: the list of [filepath, opt1, opt2]
    todo,           \* extract_feature: the list of relative file names
    idx,            \* worker -> position in its batch (0-based)
    wpc,            \* worker -> "check" | "compute" | "coarse" | "done" | "killed"
    attempts,       \* item -> computations started in this invocation
    present,        \* items whose outputs all existed when they were reached
    logged,         \* items a failure / nan message was printed for
    writes,         \* <<worker, item, file>>: np.save calls of this invocation
    missing,        \* items lacking an output when the invocation was entered
    unfinished,     \* an earlier invocation logged a failure or was interrupted
    p_len,          \* compute_f0: x.shape[0] // hop
    f0_len,         \* compute_f0: len(f0) as returned by the pitch tracker
    pad,            \* compute_f0: <<left, right>> handed to np.pad, or <<>>
    out_len         \* compute_f0: len of the returned contour, -1 before

fsvars   == <<target, training_dir, tree, num_gpus, dirs, files>>
callvars == <<stage, calls, ret, num_processes, paths, todo>>
wvars    == <<idx, wpc>>
hvars    == <<attempts, present, logged, writes, missing, unfinished>>
padvars  == <<p_len, f0_len, pad, out_len>>
vars     == <<fsvars, callvars, wvars, hvars, padvars>>

----------------------------------------------------------------------------
\* Bounds of the model.

\* at most this many files in 1_16k_wavs
MaxFiles == 4
\* num_processes ranges over 0..MaxProcs, num_gpus over 0..MaxGpus
MaxProcs == 3
MaxGpus == 3
\* invocations per behaviour
MaxCalls == 2
\* p_len and len(f0) range over 0..MaxFrames
MaxFrames == 10

----------------------------------------------------------------------------
\* Strings.

\* the characters used, in code-point order ('.' < '/' < digits < '_' < letters)
Chars ==
    <<".", "/", "0", "1", "2", "3", "5", "6", "_", "a", "b", "c", "d", "e",
      "f", "k", "n", "p", "r", "s", "t", "u", "v", "w", "x", "y">>

Code(c) == CHOOSE i \in 1..Len(Chars) : Chars[i] = c

\* Python's str < str
RECURSIVE StrLess(_, _)
StrLess(a, b) ==
    IF b = <<>> THEN FALSE
    ELSE IF a = <<>> THEN TRUE
    ELSE IF Head(a) = Head(b) THEN StrLess(Tail(a), Tail(b))
    ELSE Code(Head(a)) < Code(Head(b))

\* sorted(list(S)) for a set of strings
RECURSIVE Sorted(_)
Sorted(S) ==
    IF S = {} THEN <<>>
    ELSE LET m == CHOOSE x \in S : \A y \in S \ {x} : StrLess(x, y)
         IN  <<m>> \o Sorted(S \ {m})

\* sub in s
Contains(s, sub) ==
    \E i \in 1..(Len(s) - Len(sub) + 1) : SubSeq(s, i, i + Len(sub) - 1) = sub

\* s.endswith(suf)
EndsWith(s, suf) ==
    /\ Len(s) >= Len(suf)
    /\ SubSeq(s, Len(s) - Len(suf) + 1, Len(s)) = suf

\* s.replace(old, new): every non-overlapping occurrence, left to right
RECURSIVE Replace(_, _, _)
Replace(s, old, new) ==
    IF Len(s) < Len(old) THEN s
    ELSE IF SubSeq(s, 1, Len(old)) = old
         THEN new \o Replace(SubSeq(s, Len(old) + 1, Len(s)), old, new)
         ELSE <<Head(s)>> \o Replace(Tail(s), old, new)

\* os.path.join(a, b) for a relative b
Join(a, b) == a \o <<"/">> \o b

\* os.path.dirname(p)
Dirname(p) ==
    LET cut == {i \in 1..Len(p) : p[i] = "/"}
    IN  IF cut = {} THEN <<>>
        ELSE SubSeq(p, 1, (CHOOSE i \in cut : \A j \in cut : j <= i) - 1)

\* (a slip: paths[i:], the step left out)
SliceNoStep(s, i, n) == IF i >= Len(s) THEN <<>> ELSE SubSeq(s, i + 1, Len(s))

\* paths[i::n]
Slice(s, i, n) ==
    IF i >= Len(s) THEN <<>>
    ELSE [k \in 1..((Len(s) - i + n - 1) \div n) |-> s[i + (k - 1) * n + 1]]

Range(s) == {s[k] : k \in 1..Len(s)}

s_spec == <<"s", "p", "e", "c">>
s_wav  == <<"w", "a", "v">>
s_npy  == <<"n", "p", "y">>
dot_wav == <<".", "w", "a", "v">>
dot_npy == <<".", "n", "p", "y">>

----------------------------------------------------------------------------
\* The training directory.

dataset_dir    == Join(training_dir, <<"1", "_", "1", "6", "k", "_", "w", "a", "v", "s">>)
opt_dir_f0     == Join(training_dir, <<"2", "a", "_", "f", "0">>)
opt_dir_f0_nsf == Join(training_dir, <<"2", "b", "_", "f", "0", "n", "s", "f">>)
wav_dir        == dataset_dir
out_dir        ==
    Join(training_dir, <<"3", "_", "f", "e", "a", "t", "u", "r", "e", "2", "5", "6">>)

\* os.listdir(dataset_dir), os.path.isdir and os.listdir of a subdirectory
TopEntries     == {e.name : e \in {x \in tree : x.dir = <<>>}}
                  \cup {e.dir : e \in {x \in tree : x.dir # <<>>}}
IsDir(pathname) == \E e \in tree : e.dir = pathname
SubEntries(pathname) == {e.name : e \in {x \in tree : x.dir = pathname}}

\* os.makedirs(d, exist_ok=True): d and its missing parents below training_dir
RECURSIVE Makedirs(_)
Makedirs(d) ==
    IF d = <<>> \/ d = training_dir THEN {} ELSE {d} \cup Makedirs(Dirname(d))

\* np.save(file, arr): ".npy" is appended unless the name already ends with it
NpSavePath(file) == IF EndsWith(file, dot_npy) THEN file ELSE file \o dot_npy

\* os.path.exists of a file np.save may have written
Exists(file) == file \in files

----------------------------------------------------------------------------
\* extract_f0: enumeration.

\* the inner loop over one subdirectory: files with 'spec' in the name are left out
RECURSIVE SubNames(_, _)
SubNames(pathname, fs) ==
    IF fs = <<>> THEN <<>>
    ELSE (IF Contains(Head(fs), s_spec) THEN <<>>
          ELSE <<Join(pathname, Head(fs))>>)
         \o SubNames(pathname, Tail(fs))

\* the outer loop over the sorted listing of dataset_dir
RECURSIVE NamesFrom(_)
NamesFrom(entries) ==
    IF entries = <<>> THEN <<>>
    ELSE (IF IsDir(Head(entries))
          THEN SubNames(Head(entries), Sorted(SubEntries(Head(entries))))
          ELSE <<Head(entries)>>)
         \o NamesFrom(Tail(entries))

Names == NamesFrom(Sorted(TopEntries))

\* the filter applied to the joined path of each name
SpecFilter(name) == Contains(Join(dataset_dir, name), s_spec)

\* one entry of paths
PathEntry(name) ==
    <<Join(dataset_dir, name), Join(opt_dir_f0, name), Join(opt_dir_f0_nsf, name)>>

RECURSIVE PathsFrom(_)
PathsFrom(names) ==
    IF names = <<>> THEN <<>>
    ELSE (IF SpecFilter(Head(names)) THEN <<>> ELSE <<PathEntry(Head(names))>>)
         \o PathsFrom(Tail(names))

Paths == PathsFrom(Names)

\* the output subdirectories made before the workers start
PathDirs(ps) ==
    UNION {Makedirs(Dirname(p[2])) \cup Makedirs(Dirname(p[3])) : p \in Range(ps)}

----------------------------------------------------------------------------
\* Workers: the for loops of FeatureInput.go and of extract_feature's process.

F0Batch(i)   == Slice(paths, i, num_processes)
FeatBatch(i) == Slice(todo, i, num_gpus)

Terminated == {"done", "raised"}

\* what an invocation gave back: None, or the message of extract_feature
RetNone        == <<"None">>
RetRunning     == <<"running">>
RetInterrupted == <<"interrupted">>

\* the for statement takes the next item, or the loop (and the worker) ends
Continue(i, batch) ==
    [idx |-> idx[i] + 1,
     wpc |-> IF idx[i] + 1 >= Len(batch) THEN "done" ELSE "check"]

\* (a slip: the try around the loop instead of inside it, so that the first
\* failure ends the worker)
ExceptionEndsLoop(i, batch) == [idx |-> idx[i], wpc |-> "raised"]

\* the except clause: the message is printed and the loop goes on
AfterException(i, batch) == Continue(i, batch)

Step(i, r) ==
    /\ idx' = [idx EXCEPT ![i] = r.idx]
    /\ wpc' = [wpc EXCEPT ![i] = r.wpc]

\* the workers as they are started: one per batch, at its first item
StartIdx(n) == [i \in 0..(n - 1) |-> 0]
StartPc(list, n) ==
    [i \in 0..(n - 1) |-> IF Slice(list, i, n) = <<>> THEN "done" ELSE "check"]

----------------------------------------------------------------------------
\* FeatureInput.go

\* (a slip: 'or' for 'and')
SkipF0Either(p) == Exists(p[2] \o dot_npy) \/ Exists(p[3] \o dot_npy)

\* the test that skips an item
SkipF0(p) == Exists(p[2] \o dot_npy) /\ Exists(p[3] \o dot_npy)

\* (a slip: the coarse path handed to the first save)
CoarseFirst(p) == p[2]

\* the two saves, in the order they are made: nsf, then coarse
FirstSaved(p)  == p[3]
SecondSaved(p) == p[2]

\* a save succeeds only into an existing directory
SaveOk(file) == Dirname(NpSavePath(file)) \in dirs

GoCheck(i) ==
    /\ stage = "f0"
    /\ wpc[i] = "check"
    /\ LET p == F0Batch(i)[idx[i] + 1]
       IN  /\ present' = IF (p[2] \o dot_npy) \in files /\ (p[3] \o dot_npy) \in files
                         THEN present \cup {p[1]} ELSE present
           /\ IF SkipF0(p)
              THEN Step(i, Continue(i, F0Batch(i)))
              ELSE Step(i, [idx |-> idx[i], wpc |-> "compute"])
    /\ UNCHANGED <<fsvars, callvars, attempts, logged, writes, missing, unfinished, padvars>>

\* compute_f0 and the save of the raw contour
GoCompute(i) ==
    /\ stage = "f0"
    /\ wpc[i] = "compute"
    /\ LET p == F0Batch(i)[idx[i] + 1]
       IN  /\ attempts' = [attempts EXCEPT ![p[1]] = @ + 1]
           /\ \E outcome \in {"ok", "raise"} :
                IF outcome = "ok" /\ SaveOk(FirstSaved(p))
                THEN /\ files' = files \cup {NpSavePath(FirstSaved(p))}
                     /\ writes' = writes \cup {<<i, p[1], NpSavePath(FirstSaved(p))>>}
                     /\ Step(i, [idx |-> idx[i], wpc |-> "coarse"])
                     /\ UNCHANGED logged
                ELSE /\ logged' = logged \cup {p[1]}
                     /\ Step(i, AfterException(i, F0Batch(i)))
                     /\ UNCHANGED <<files, writes>>
    /\ UNCHANGED <<target, training_dir, tree, num_gpus, dirs, callvars, present, missing,
                   unfinished, padvars>>

\* coarse_f0 and the save of the coarse contour
GoCoarse(i) ==
    /\ stage = "f0"
    /\ wpc[i] = "coarse"
    /\ LET p == F0Batch(i)[idx[i] + 1]
       IN  \E outcome \in {"ok", "raise"} :
                IF outcome = "ok" /\ SaveOk(SecondSaved(p))
                THEN /\ files' = files \cup {NpSavePath(SecondSaved(p))}
                     /\ writes' = writes \cup {<<i, p[1], NpSavePath(SecondSaved(p))>>}
                     /\ Step(i, Continue(i, F0Batch(i)))
                     /\ UNCHANGED logged
                ELSE /\ logged' = logged \cup {p[1]}
                     /\ Step(i, AfterException(i, F0Batch(i)))
                     /\ UNCHANGED <<files, writes>>
    /\ UNCHANGED <<target, training_dir, tree, num_gpus, dirs, callvars, attempts, present,
                   missing, unfinished, padvars>>

----------------------------------------------------------------------------
\* extract_f0

\* history: the invocation now over (or one before it) logged a failure for
\* an item or was interrupted
EndedUnfinished == unfinished \/ logged # {} \/ ret = RetInterrupted

\* history: the enumerated items lacking an output file at entry
MissingF0 ==
    {p[1] : p \in {q \in Range(Paths) :
                     ~(NpSavePath(q[2]) \in files /\ NpSavePath(q[3]) \in files)}}

\* the guard that returns at once
F0AlreadyDone == opt_dir_f0 \in dirs /\ opt_dir_f0_nsf \in dirs

ExtractF0(np) ==
    /\ target = "extract_f0"
    /\ stage = "idle"
    /\ calls < MaxCalls
    /\ calls' = calls + 1
    /\ missing' = MissingF0
    /\ unfinished' = EndedUnfinished
    /\ present' = {}
    /\ logged' = {}
    /\ writes' = {}
    /\ todo' = <<>>
    /\ num_processes' = np
    /\ IF F0AlreadyDone
       THEN /\ stage' = "idle"
            /\ ret' = RetNone
            /\ paths' = <<>>
            /\ attempts' = <<>>
            /\ idx' = <<>>
            /\ wpc' = <<>>
            /\ UNCHANGED dirs
       ELSE /\ stage' = "f0"
            /\ ret' = RetRunning
            /\ paths' = Paths
            /\ dirs' = dirs \cup Makedirs(opt_dir_f0) \cup Makedirs(opt_dir_f0_nsf)
                            \cup PathDirs(Paths)
            /\ attempts' = [it \in {p[1] : p \in Range(Paths)} |-> 0]
            /\ idx' = StartIdx(np)
            /\ wpc' = StartPc(Paths, np)
    /\ UNCHANGED <<target, training_dir, tree, num_gpus, files, padvars>>

\* p.join() of every process, then the return
ExtractF0Join ==
    /\ stage = "f0"
    /\ \A i \in DOMAIN wpc : wpc[i] \in Terminated
    /\ stage' = "idle"
    /\ ret' = RetNone
    /\ UNCHANGED <<fsvars, calls, num_processes, paths, todo, wvars, hvars, padvars>>

\* the run is interrupted (the program is killed): every worker stops where it is
Interrupt ==
    /\ stage \in {"f0", "feature"}
    /\ stage' = "idle"
    /\ ret' = RetInterrupted
    /\ wpc' = [i \in DOMAIN wpc |-> IF wpc[i] \in Terminated THEN wpc[i] ELSE "killed"]
    /\ UNCHANGED <<fsvars, calls, num_processes, paths, todo, idx, hvars, padvars>>

----------------------------------------------------------------------------
\* extract_feature

load_emb_dic ==
    {"hubert_base", "hubert_base768", "contentvec", "contentvec768",
     "distilhubert", "distilhubert768"}

\* the embedder names a caller may pass: the supported ones and another
EmbedderNames == load_emb_dic \cup {"hubert_large"}

NotSupported(embedder_name) == <<"Not supported embedder", embedder_name>>

\* the files of one speaker directory, joined to its name
RECURSIVE TodoOf(_, _)
TodoOf(dir, fs) ==
    IF fs = <<>> THEN <<>> ELSE <<Join(dir, Head(fs))>> \o TodoOf(dir, Tail(fs))

RECURSIVE TodoFrom(_)
TodoFrom(entries) ==
    IF entries = <<>> THEN <<>>
    ELSE (IF IsDir(Head(entries))
          THEN TodoOf(Head(entries), Sorted(SubEntries(Head(entries))))
          ELSE <<>>)
         \o TodoFrom(Tail(entries))

Todo == TodoFrom(Sorted(TopEntries))

\* the files process works on
IsWav(file) == EndsWith(file, dot_wav)

\* the output path of a file
OutFilepath(file) == Join(out_dir, Replace(file, s_wav, s_npy))

\* the test that skips a file
SkipFeat(file) == Exists(OutFilepath(file))

\* history: the .wav files lacking their output at entry
MissingFeat == {f \in Range(Todo) : IsWav(f) /\ OutFilepath(f) \notin files}

FeatAlreadyDone == out_dir \in dirs

\* The guard, the makedirs, the embedder test and the start of one worker per
\* device. Loading the embedder model is taken to succeed.

ExtractFeature(embedder_name) ==
    /\ target = "extract_feature"
    /\ stage = "idle"
    /\ calls < MaxCalls
    /\ calls' = calls + 1
    /\ missing' = MissingFeat
    /\ unfinished' = EndedUnfinished
    /\ present' = {}
    /\ logged' = {}
    /\ writes' = {}
    /\ paths' = <<>>
    /\ UNCHANGED num_processes
    /\ IF FeatAlreadyDone
       THEN /\ stage' = "idle"
            /\ ret' = RetNone
            /\ todo' = <<>>
            /\ attempts' = <<>>
            /\ idx' = <<>>
            /\ wpc' = <<>>
            /\ UNCHANGED dirs
       ELSE /\ dirs' = dirs \cup Makedirs(out_dir)
            /\ IF embedder_name \notin load_emb_dic
               THEN /\ stage' = "idle"
                    /\ ret' = NotSupported(embedder_name)
                    /\ todo' = <<>>
                    /\ attempts' = <<>>
                    /\ idx' = <<>>
                    /\ wpc' = <<>>
               ELSE /\ stage' = "feature"
                    /\ ret' = RetRunning
                    /\ todo' = Todo
                    /\ attempts' = [f \in Range(Todo) |-> 0]
                    /\ idx' = StartIdx(num_gpus)
                    /\ wpc' = StartPc(Todo, num_gpus)
    /\ UNCHANGED <<target, training_dir, tree, num_gpus, files, padvars>>

\* process: the tests made on a file before it is read
ProcCheck(i) ==
    /\ stage = "feature"
    /\ wpc[i] = "check"
    /\ LET file == FeatBatch(i)[idx[i] + 1]
       IN  IF ~IsWav(file)
           THEN /\ Step(i, Continue(i, FeatBatch(i)))
                /\ UNCHANGED <<present, dirs>>
           ELSE /\ present' = IF OutFilepath(file) \in files
                              THEN present \cup {file} ELSE present
                /\ IF SkipFeat(file)
                   THEN /\ Step(i, Continue(i, FeatBatch(i)))
                        /\ UNCHANGED dirs
                   ELSE /\ dirs' = dirs \cup Makedirs(Dirname(OutFilepath(file)))
                        /\ Step(i, [idx |-> idx[i], wpc |-> "compute"])
    /\ UNCHANGED <<target, training_dir, tree, num_gpus, files, callvars, attempts, logged,
                   writes, missing, unfinished, padvars>>

\* process: readwave, the embedder, the nan test and the save
ProcCompute(i) ==
    /\ stage = "feature"
    /\ wpc[i] = "compute"
    /\ LET file == FeatBatch(i)[idx[i] + 1]
       IN  /\ attempts' = [attempts EXCEPT ![file] = @ + 1]
           /\ \E outcome \in {"ok", "nan", "raise"} :
                IF outcome = "ok" /\ SaveOk(OutFilepath(file))
                THEN /\ files' = files \cup {NpSavePath(OutFilepath(file))}
                     /\ writes' = writes \cup {<<i, file, NpSavePath(OutFilepath(file))>>}
                     /\ Step(i, Continue(i, FeatBatch(i)))
                     /\ UNCHANGED logged
                ELSE /\ logged' = logged \cup {file}
                     /\ Step(i, IF outcome = "nan" THEN Continue(i, FeatBatch(i))
                                ELSE AfterException(i, FeatBatch(i)))
                     /\ UNCHANGED <<files, writes>>
    /\ UNCHANGED <<target, training_dir, tree, num_gpus, dirs, callvars, present, missing,
                   unfinished, padvars>>

\* run_until_complete(gather(...)) is over, then the return
ExtractFeatureJoin ==
    /\ stage = "feature"
    /\ \A i \in DOMAIN wpc : wpc[i] \in Terminated
    /\ stage' = "idle"
    /\ ret' = RetNone
    /\ UNCHANGED <<fsvars, calls, num_processes, paths, todo, wvars, hvars, padvars>>

----------------------------------------------------------------------------
\* compute_f0, f0_method "pm": the padding of the tracker's output to p_len.

\* (a slip: the rounding up done after the halving)
pad_size_up == (p_len - f0_len) \div 2 + 1

pad_size == (p_len - f0_len + 1) \div 2

NeedsPad == pad_size > 0 \/ p_len - f0_len - pad_size > 0

PadWidths == <<pad_size, p_len - f0_len - pad_size>>

ComputeF0 ==
    /\ out_len = -1
    /\ IF NeedsPad
       THEN /\ pad' = PadWidths
            /\ out_len' = PadWidths[1] + f0_len + PadWidths[2]
       ELSE /\ pad' = <<>>
            /\ out_len' = f0_len
    /\ UNCHANGED <<fsvars, callvars, wvars, hvars, p_len, f0_len>>

----------------------------------------------------------------------------
\* The inputs.

f(dir, name) == [dir |-> dir, name |-> name]

a_wav     == <<"a", ".", "w", "a", "v">>
a_wav_npy == <<"a", ".", "w", "a", "v", ".", "n", "p", "y">>
b_wav     == <<"b", ".", "w", "a", "v">>
spec_wav  == <<"s", "p", "e", "c", ".", "w", "a", "v">>
x_txt     == <<"x", ".", "t", "x", "t">>

\* the files 1_16k_wavs may hold when the pitch stage is run ...
PoolF0 ==
    {f(<<>>, b_wav), f(<<"d">>, a_wav), f(<<"d">>, a_wav_npy), f(<<"d">>, spec_wav),
     f(<<"e">>, a_wav), f(<<"e">>, b_wav)}

\* ... and when the embedding stage is run
PoolFeature ==
    {f(<<>>, b_wav), f(<<"d">>, a_wav), f(<<"d">>, b_wav), f(<<"d">>, x_txt),
     f(s_wav, a_wav), f(s_npy, a_wav)}

TrainingDirs == {<<"t">>, <<"t", "/", "s", "p", "e", "c", "1">>}

Trees(pool) == {t \in SUBSET pool : Cardinality(t) <= MaxFiles}

\* The state after construction: the input tree, no output, nothing running.
\* The two stages share only the read-only input tree and write different
\* directories, so a behaviour follows the invocations of one of them (target).
InitOrch ==
    /\ \/ /\ target = "extract_f0"
          /\ training_dir \in TrainingDirs
          /\ tree \in Trees(PoolF0)
          /\ num_gpus = 0
       \/ /\ target = "extract_feature"
          /\ training_dir = <<"t">>
          /\ tree \in Trees(PoolFeature)
          /\ num_gpus \in 0..MaxGpus
    /\ dirs = {}
    /\ files = {}
    /\ stage = "idle"
    /\ calls = 0
    /\ ret = RetNone
    /\ num_processes = 0
    /\ paths = <<>>
    /\ todo = <<>>
    /\ idx = <<>>
    /\ wpc = <<>>
    /\ attempts = <<>>
    /\ present = {}
    /\ logged = {}
    /\ writes = {}
    /\ missing = {}
    /\ unfinished = FALSE

PadIdle ==
    /\ p_len = 0
    /\ f0_len = 0
    /\ pad = <<>>
    /\ out_len = 0

Init == InitOrch /\ PadIdle

Next ==
    \/ \E np \in 0..MaxProcs : ExtractF0(np)
    \/ \E i \in DOMAIN wpc : GoCheck(i)
    \/ \E i \in DOMAIN wpc : GoCompute(i)
    \/ \E i \in DOMAIN wpc : GoCoarse(i)
    \/ ExtractF0Join
    \/ \E e \in EmbedderNames : ExtractFeature(e)
    \/ \E i \in DOMAIN wpc : ProcCheck(i)
    \/ \E i \in DOMAIN wpc : ProcCompute(i)
    \/ ExtractFeatureJoin
    \/ Interrupt

Spec == Init /\ [][Next]_vars

\* compute_f0 alone, on every pair of lengths
InitPad ==
    /\ InitOrch
    /\ target = "extract_f0"
    /\ training_dir = <<"t">>
    /\ tree = {}
    /\ p_len \in 0..MaxFrames
    /\ f0_len \in 0..MaxFrames
    /\ pad = <<>>
    /\ out_len = -1

NextPad == ComputeF0

SpecPad == InitPad /\ [][NextPad]_vars

----------------------------------------------------------------------------
\* Vocabulary of the properties.

\* the workers' batches and the item (input file) of a batch entry
BatchOf(i) == IF target = "extract_f0" THEN F0Batch(i) ELSE FeatBatch(i)
ItemOf(e)  == IF target = "extract_f0" THEN e[1] ELSE e

Attempted   == {it \in DOMAIN attempts : attempts[it] >= 1}
WrittenBy(it) == {w[3] : w \in {x \in writes : x[2] = it}}
NormalReturn == stage = "idle" /\ ret = RetNone
\* the invocation was given at least one worker process / device
HasWorkers ==
    IF target = "extract_f0" THEN num_processes >= 1 ELSE num_gpus >= 1

\* the files np.save names for one batch entry
SavedFiles(e) ==
    IF target = "extract_f0" THEN {NpSavePath(e[2]), NpSavePath(e[3])}
    ELSE {NpSavePath(OutFilepath(e))}

\* C1: (resumable) when an invocation made after one that a failure or an
\* interruption left unfinished returns, the items that lacked an output when
\* it was entered are exactly the ones it computed.
C1_Resumes ==
    (NormalReturn /\ calls >= 2 /\ unfinished /\ HasWorkers) => missing = Attempted

\* C2 as stated: an item whose outputs (opt_path + '.npy'; the output .npy)
\* existed when it was reached gets no write; every other item a worker has
\* gone past was attempted and, unless a failure was logged for it, has all of
\* its outputs written.
C2_Original ==
    \A i \in DOMAIN idx : \A k \in 1..idx[i] :
        LET e  == BatchOf(i)[k]
            it == ItemOf(e)
            outs == IF target = "extract_f0"
                    THEN {e[2] \o dot_npy, e[3] \o dot_npy}
                    ELSE {OutFilepath(e)}
        IN  IF it \in present
            THEN WrittenBy(it) = {}
            ELSE /\ attempts[it] >= 1
                 /\ it \notin logged => outs \subseteq WrittenBy(it)

\* C2 as amended: the same, except that process neither attempts nor writes a
\* file whose name does not end with '.wav', and that an item's outputs are
\* the files its np.save calls name.
C2_SkipOrWrite ==
    \A i \in DOMAIN idx : \A k \in 1..idx[i] :
        LET e  == BatchOf(i)[k]
            it == ItemOf(e)
        IN  IF it \in present \/ (target = "extract_feature" /\ ~IsWav(it))
            THEN WrittenBy(it) = {} /\ (it \notin present => attempts[it] = 0)
            ELSE /\ attempts[it] >= 1
                 /\ it \notin logged => SavedFiles(e) = WrittenBy(it)

\* a worker of FeatureInput.go skipped one item as present and wrote another
C2_Witness ==
    /\ target = "extract_f0"
    /\ NormalReturn
    /\ \E i \in DOMAIN idx : \E k \in 1..idx[i] :
          /\ ItemOf(BatchOf(i)[k]) \in present
          /\ WrittenBy(ItemOf(BatchOf(i)[k])) = {}
    /\ \E it \in Attempted : Cardinality(WrittenBy(it)) = 2

\* the batches of extract_f0 partition the list, evenly
BatchesPartition ==
    /\ \A i, j \in 0..(num_processes - 1) :
          /\ i # j => Range(F0Batch(i)) \cap Range(F0Batch(j)) = {}
          /\ Len(F0Batch(i)) - Len(F0Batch(j)) <= 1
    /\ UNION {Range(F0Batch(i)) : i \in 0..(num_processes - 1)} = Range(paths)
    /\ \A i \in 0..(num_processes - 1) :
          Cardinality(Range(F0Batch(i))) = Len(F0Batch(i))

\* extract_f0 has returned only with every process started and terminated
JoinedAll ==
    NormalReturn =>
        /\ DOMAIN wpc = 0..(num_processes - 1)
        /\ \A i \in DOMAIN wpc : wpc[i] \in Terminated

\* C3 as stated: for num_processes >= 1 the batches partition the list, no
\* two workers write the same output file, and the return follows every
\* worker's termination.
C3_Original ==
    (target = "extract_f0" /\ num_processes >= 1 /\ paths # <<>>) =>
        /\ BatchesPartition
        /\ \A w1, w2 \in writes : w1[3] = w2[3] => w1[1] = w2[1]
        /\ JoinedAll

\* C3 as amended: two workers write the same output file only for two items
\* of which one is named as the other with '.npy' appended.
C3_FanOut ==
    (target = "extract_f0" /\ num_processes >= 1 /\ paths # <<>>) =>
        /\ BatchesPartition
        /\ \A w1, w2 \in writes :
              (w1[3] = w2[3] /\ w1[1] # w2[1]) =>
                  (w1[2] = w2[2] \o dot_npy \/ w2[2] = w1[2] \o dot_npy)
        /\ JoinedAll

\* two processes each had a batch, both wrote, and extract_f0 returned
C3_Witness ==
    /\ target = "extract_f0"
    /\ NormalReturn
    /\ num_processes = 2
    /\ Len(paths) = 3
    /\ \E w1, w2 \in writes : w1[1] # w2[1] /\ w1[3] # w2[3]

\* C4: when the first run of extract_feature returns, every .wav file of a
\* speaker directory was handed to exactly one worker and has its feature
\* file or a logged message, whatever the number of devices.
C4_AllWavHandled ==
    (target = "extract_feature" /\ calls = 1 /\ NormalReturn) =>
        \A file \in {x \in Range(Todo) : IsWav(x)} :
            /\ Cardinality({i \in DOMAIN wpc : file \in Range(FeatBatch(i))}) = 1
            /\ OutFilepath(file) \in files \/ file \in logged

\* C5: a failure of one item never ends the worker nor leaves it: no worker
\* has an exception propagate, a worker is done only with every item of its
\* batch reached (attempted, or skipped by the tests at the head of the loop),
\* and no item is attempted twice.
C5_FailuresContained ==
    /\ \A i \in DOMAIN wpc : wpc[i] # "raised"
    /\ \A it \in DOMAIN attempts : attempts[it] <= 1
    /\ \A i \in DOMAIN wpc :
          wpc[i] = "done" =>
              /\ idx[i] = Len(BatchOf(i))
              /\ \A k \in 1..Len(BatchOf(i)) :
                    LET it == ItemOf(BatchOf(i)[k])
                    IN  \/ attempts[it] = 1
                        \/ it \in present
                        \/ target = "extract_feature" /\ ~IsWav(it)

\* a worker logged a failure for one item and wrote the outputs of a later one
C5_Witness ==
    /\ NormalReturn
    /\ \E i \in DOMAIN wpc : \E k, l \in 1..Len(BatchOf(i)) :
          /\ k < l
          /\ ItemOf(BatchOf(i)[k]) \in logged
          /\ WrittenBy(ItemOf(BatchOf(i)[l])) # {}

\* <speaker_dir>/<stem>.wav  ->  3_feature256/<speaker_dir>/<stem>.npy
Mirror(file) == Join(out_dir, SubSeq(file, 1, Len(file) - 4) \o dot_npy)

\* C6: every feature file is written at the mirror of its input's path, and
\* no two of the inputs the workers have reached share an output path.
C6_Mirrors ==
    target = "extract_feature" =>
        /\ \A w \in writes : w[3] = Mirror(w[2])
        /\ \A f1, f2 \in Attempted \cup present :
              OutFilepath(f1) = OutFilepath(f2) => f1 = f2

\* the files extract_f0 is to enumerate: those without 'spec' in their own name
OwnNameKept == {e \in tree : ~Contains(e.name, s_spec)}
RelPath(e) == IF e.dir = <<>> THEN e.name ELSE Join(e.dir, e.name)

\* C7: extract_f0 enumerates, once each and in sorted order, exactly the files
\* whose own name does not contain 'spec', whatever the path of training_dir.
C7_Enumerates ==
    stage = "f0" =>
        /\ {p[1] : p \in Range(paths)} = {Join(dataset_dir, RelPath(e)) : e \in OwnNameKept}
        /\ Len(paths) = Cardinality(OwnNameKept)
        /\ \A k, l \in 1..Len(paths) : k < l => StrLess(paths[k][1], paths[l][1])

\* C8: an item's coarse file exists only if its raw (nsf) file exists.
C8_CoarseImpliesNsf ==
    \A e \in tree :
        LET name == RelPath(e)
        IN  /\ NpSavePath(Join(opt_dir_f0, name)) \in files
                => NpSavePath(Join(opt_dir_f0_nsf, name)) \in files
            /\ (Join(opt_dir_f0, name) \o dot_npy) \in files
                => (Join(opt_dir_f0_nsf, name) \o dot_npy) \in files

\* the converse fails: after a failure between the saves an item has its raw
\* file and no coarse file, while another item has both
C8_Witness ==
    /\ \E p \in Range(paths) :
          /\ p[1] \in logged
          /\ NpSavePath(p[3]) \in files
          /\ NpSavePath(p[2]) \notin files
    /\ \E p \in Range(paths) :
          /\ NpSavePath(p[3]) \in files
          /\ NpSavePath(p[2]) \in files

\* C9: np.pad never gets a negative width, the contour returned has length
\* p_len when len(f0) <= p_len and len(f0) otherwise (then unpadded), and the
\* left pad exceeds the right one by at most one.
C9_Padding ==
    out_len # -1 =>
        /\ pad # <<>> => (pad[1] >= 0 /\ pad[2] >= 0 /\ pad[1] - pad[2] <= 1)
        /\ f0_len <= p_len => out_len = p_len
        /\ f0_len > p_len => (out_len = f0_len /\ pad = <<>>)

\* an odd difference was padded: one more on the left than on the right
C9_Witness ==
    /\ out_len = p_len
    /\ pad # <<>>
    /\ pad[2] >= 1
    /\ pad[1] = pad[2] + 1

\* C10: a call with an unsupported embedder name returns the message and
\* leaves the training directory as it was (3_feature256 is not made).
C10_UnsupportedLeavesDir ==
    (stage = "idle" /\ ret \in {NotSupported(e) : e \in EmbedderNames})
        => out_dir \notin dirs

====
